---- MODULE Spec2Model ----
\* Track aggregation of src/tracking/tracking.py: TrackedObject (one record per
\* identity) and Tracker (the store, the per-frame ingest, the confirmed-track
\* query and the snapshot crop).
EXTENDS Integers, Sequences, FiniteSets, TLC

\* ---------------------------------------------------------------- bounds
\* Total number of detection events applied over a run.
MaxEvents == 4
\* Total number of events applied over a run of the long-run specification.
MaxLongEvents == 21
\* Seconds the wall clock may advance over a run.
MaxClock == 1
\* Largest trajectory capacity configured with set_max_points_count.
MaxCapacity == 1
\* Largest confirm threshold configured on Tracker.FRAMES_COUNT.
MaxThreshold == 1
\* Largest frame side of the crop specification (besides the 100x100 frame).
MaxDim == 3

\* ------------------------------------------------------ program constants
DEFAULT_MAX_POINTS == 90
DEFAULT_FRAMES_COUNT == 10

\* ------------------------------------------------------------- input sets
\* Track identities handed out by the detector.
Ids == {1, 2}
\* results[0].names: class index -> label. A sequence here, indexed from 1, so
\* class index c is names[c + 1].
names == <<"car", "truck">>
\* Normalised boxes (x_center, y_center, w, h), in hundredths: 2 is 0.02.
BoxCorner == <<2, 2, 20, 20>>
BoxBad == <<150, 50, 20, 20>>
\* What one detection can be: a class index and a normalised box.
Detections == {<<0, BoxCorner>>, <<1, BoxBad>>}
Events == {[id |-> i, cls |-> d[1], xywhn |-> d[2]] : i \in Ids, d \in Detections}
\* A frame's batch: no detection (boxes.id is None) or up to as many as names,
\* every identity at most once (the tracker gives each box of a frame its own).
Batches ==
  {b \in UNION {[1..n -> Events] : n \in 0..Len(names)} :
     \A j, k \in 1..Len(b) : j # k => b[j].id # b[k].id}
\* The batches of the long-run specification: one kind of detection.
LongBatches == {b \in Batches : \A k \in 1..Len(b) : b[k].cls = 0 /\ b[k].xywhn = BoxCorner}
\* The batches of the crowded-frame specification: one kind of detection, up to
\* one more detection than there are names, identities free to repeat.
ZipBatches ==
  {b \in UNION {[1..n -> Events] : n \in 0..(Len(names) + 1)} :
     \A k \in 1..Len(b) : b[k].cls = 0 /\ b[k].xywhn = BoxCorner}
\* The frames and boxes of the crop specification.
CropShapes == ((1..MaxDim) \X (1..MaxDim)) \cup {<<100, 100>>}
NormGrid == {0, 2, 20, 50, 100}
CropBoxes == NormGrid \X NormGrid \X NormGrid \X NormGrid
\* Shape (height, width) of every frame of the video.
FrameShape == <<100, 100>>
\* Configurations (MAX_POINTS, FRAMES_COUNT): the defaults, or small overrides.
Configs == {<<DEFAULT_MAX_POINTS, DEFAULT_FRAMES_COUNT>>}
             \cup ((1..MaxCapacity) \X (1..MaxThreshold))

VARIABLES
  tracked_objects,  \* Tracker.tracked_objects: identity -> record
  MAX_POINTS,       \* TrackedObject.MAX_POINTS
  FRAMES_COUNT,     \* Tracker.FRAMES_COUNT
  clock,            \* seconds elapsed on the wall clock read by datetime.now()
  ret,              \* what the most recent call returned
  observed,         \* history: per identity, the events the ingest loop applied
  crop,             \* the crop specification: arguments, rectangle and result
  frame             \* the call of track_next_frame in progress and its position

vars == <<tracked_objects, MAX_POINTS, FRAMES_COUNT, clock, ret, observed, crop, frame>>

\* ------------------------------------------------------------ arithmetic
Min(a, b) == IF a <= b THEN a ELSE b
Max(a, b) == IF a >= b THEN a ELSE b
\* Variant of TruncDiv: floor division, as a // b.
FloorDiv(a, b) == a \div b

\* int(a / b) of Python for b > 0: truncation towards zero.
TruncDiv(a, b) == IF a >= 0 THEN a \div b ELSE -((-a) \div b)

\* ------------------------------------------------------------ timestamps
\* The instant the run starts at: 31.12.2026 23:59:59, in seconds since
\* 01.01.1970 00:00:00.
ClockStart == 20818 * 86400 + 86399
\* datetime.now() when the wall clock has advanced by c seconds.
Now(c) == ClockStart + c

\* The civil date <<day, month, year>> of a day number (days since 1970-01-01).
CivilFromDays(z0) ==
  LET z == z0 + 719468
      era == z \div 146097
      doe == z - era * 146097
      yoe == (doe - doe \div 1460 + doe \div 36524 - doe \div 146096) \div 365
      doy == doe - (365 * yoe + yoe \div 4 - yoe \div 100)
      mp == (5 * doy + 2) \div 153
      d == doy - (153 * mp + 2) \div 5 + 1
      m == IF mp < 10 THEN mp + 3 ELSE mp - 9
      y == yoe + era * 400 + (IF m <= 2 THEN 1 ELSE 0)
  IN <<d, m, y>>

\* strftime("%d.%m.%Y %H:%M:%S"): the text's fields in the order they are
\* written, every field zero-padded to a fixed width.
Strftime(t) ==
  LET date == CivilFromDays(t \div 86400)
      sod == t % 86400
  IN <<date[1], date[2], date[3], sod \div 3600, (sod % 3600) \div 60, sod % 60>>

\* ---------------------------------------------------------- TrackedObject
None == <<>>
Some(v) == <<v>>

\* Variant of NewTrackedObject: the record is born with one vote.
TrackedObjectSeen ==
  [tracked_points |-> <<>>,
   predicted_types |-> <<[label |-> "car", count |-> 1]>>,
   first_detection |-> None,
   last_detection |-> None,
   cropped_frame |-> None]

\* TrackedObject.__init__
NewTrackedObject ==
  [tracked_points |-> <<>>,
   predicted_types |-> <<>>,
   first_detection |-> None,
   last_detection |-> None,
   cropped_frame |-> None]

\* Variant of Detect: the two readings of the clock end in the other field.
DetectSwapped(rec, t1, t2) ==
  [rec EXCEPT
     !.first_detection = IF rec.first_detection = None THEN Some(Strftime(t2)) ELSE @,
     !.last_detection = Some(Strftime(t1))]

\* detect(): t1 and t2 are the two readings of datetime.now().
Detect(rec, t1, t2) ==
  [rec EXCEPT
     !.first_detection = IF rec.first_detection = None THEN Some(Strftime(t1)) ELSE @,
     !.last_detection = Some(Strftime(t2))]

\* Variant of AddVote: a label already in the ledger is set to 1 again.
RECURSIVE AddVoteReset(_, _)
AddVoteReset(pt, label) ==
  IF pt = <<>> THEN <<[label |-> label, count |-> 1]>>
  ELSE IF Head(pt).label = label
       THEN <<[Head(pt) EXCEPT !.count = 1]>> \o Tail(pt)
       ELSE <<Head(pt)>> \o AddVoteReset(Tail(pt), label)

\* predicted_types[label] += 1 on a dict that keeps insertion order.
RECURSIVE AddVote(_, _)
AddVote(pt, label) ==
  IF pt = <<>> THEN <<[label |-> label, count |-> 1]>>
  ELSE IF Head(pt).label = label
       THEN <<[Head(pt) EXCEPT !.count = @ + 1]>> \o Tail(pt)
       ELSE <<Head(pt)>> \o AddVote(Tail(pt), label)

RECURSIVE SumVotes(_)
SumVotes(pt) == IF pt = <<>> THEN 0 ELSE Head(pt).count + SumVotes(Tail(pt))

\* max(keys, key=count): scan in insertion order, keep the first maximum.
RECURSIVE MaxKey(_, _, _)
MaxKey(pt, i, best) ==
  IF i > Len(pt) THEN pt[best].label
  ELSE MaxKey(pt, i + 1, IF pt[i].count > pt[best].count THEN i ELSE best)

\* Variant of Type: the scan keeps the last maximum instead of the first.
RECURSIVE MaxKeyLast(_, _, _)
MaxKeyLast(pt, i, best) ==
  IF i > Len(pt) THEN pt[best].label
  ELSE MaxKeyLast(pt, i + 1, IF pt[i].count >= pt[best].count THEN i ELSE best)
TypeLast(rec) == MaxKeyLast(rec.predicted_types, 2, 1)

\* The type property (defined when there is at least one vote).
Type(rec) == MaxKey(rec.predicted_types, 2, 1)

\* The points setter.
SetPoints(tp, value, maxPoints) ==
  IF Len(tp) > maxPoints THEN Append(Tail(tp), value) ELSE Append(tp, value)

\* __len__
LenTrack(rec) ==
  IF rec.tracked_points = <<>> THEN 0 ELSE SumVotes(rec.predicted_types)

\* ------------------------------------------------------------------ crop
\* A Python slice start:stop on an axis of length n, as the pair <<lo, hi>> of
\* the indices it selects (lo >= hi selects nothing).
SliceIndex(i, n) == IF i < 0 THEN Max(i + n, 0) ELSE Min(i, n)
Slice(start, stop, n) == <<SliceIndex(start, n), SliceIndex(stop, n)>>

\* The rectangle <<x, y, w, h>> crop_image_with_bbox computes; shape is
\* (height, width), bbox in hundredths.
CropRect(shape, bbox) ==
  LET x_center == TruncDiv(bbox[1] * shape[2], 100)
      y_center == TruncDiv(bbox[2] * shape[1], 100)
      w == TruncDiv(bbox[3] * shape[2], 100)
      h == TruncDiv(bbox[4] * shape[1], 100)
      x == TruncDiv(2 * x_center - w, 2)
      y == TruncDiv(2 * y_center - h, 2)
  IN <<x, y, w, h>>

\* image[y:y + h, x:x + w]: the rows and columns of the frame the crop holds.
CropImageWithBbox(shape, bbox) ==
  LET r == CropRect(shape, bbox)
  IN [rows |-> Slice(r[2], r[2] + r[4], shape[1]),
      cols |-> Slice(r[1], r[1] + r[3], shape[2])]

\* ---------------------------------------------------------------- Tracker
\* Variant of GetOrCreate: the default factory runs on every access.
GetOrCreateFresh(store, id) ==
  IF id \in DOMAIN store THEN [store EXCEPT ![id] = NewTrackedObject]
  ELSE store @@ (id :> NewTrackedObject)

\* tracked_objects[track_id] on the defaultdict.
GetOrCreate(store, id) ==
  IF id \in DOMAIN store THEN store ELSE store @@ (id :> NewTrackedObject)

\* box.xywh centre in pixels, kept in hundredths of a pixel.
Centre(ev, shape) == <<ev.xywhn[1] * shape[2], ev.xywhn[2] * shape[1]>>

\* Variant of ApplyEvent: the snapshot is taken again on every eligible event.
ApplyEventRecapture(rec, ev, shape, t1, t2, maxPoints, framesCount) ==
  LET detected == Detect(rec, t1, t2)
      captured ==
        IF LenTrack(detected) > framesCount
        THEN [detected EXCEPT !.cropped_frame = Some(CropImageWithBbox(shape, ev.xywhn))]
        ELSE detected
      voted == [captured EXCEPT !.predicted_types = AddVote(@, names[ev.cls + 1])]
  IN [voted EXCEPT !.tracked_points = SetPoints(@, Centre(ev, shape), maxPoints)]

\* Variant of Capture: the snapshot is taken without the threshold test.
CaptureEager(rec, ev, shape, framesCount) ==
  IF rec.cropped_frame = None
  THEN [rec EXCEPT !.cropped_frame = Some(CropImageWithBbox(shape, ev.xywhn))]
  ELSE rec

\* Lines 100-101: the snapshot, taken once, when len(track) > FRAMES_COUNT.
Capture(rec, ev, shape, framesCount) ==
  IF rec.cropped_frame = None /\ LenTrack(rec) > framesCount
  THEN [rec EXCEPT !.cropped_frame = Some(CropImageWithBbox(shape, ev.xywhn))]
  ELSE rec

\* Line 102: the vote for the label of the event's class.
Vote(rec, ev) == [rec EXCEPT !.predicted_types = AddVote(@, names[ev.cls + 1])]

\* Line 103: the centre of the event's box goes to the trajectory.
Point(rec, ev, shape, maxPoints) ==
  [rec EXCEPT !.tracked_points = SetPoints(@, Centre(ev, shape), maxPoints)]

\* One iteration of the loop of track_next_frame on the record of the event.
ApplyEvent(rec, ev, shape, t1, t2, maxPoints, framesCount) ==
  Point(Vote(Capture(Detect(rec, t1, t2), ev, shape, framesCount), ev), ev, shape, maxPoints)

\* Variant of Update: every identity of the store names the one record.
UpdateShared(store, id, rec) == [j \in DOMAIN store |-> rec]

\* track is the record the store holds for id: what the loop body does to
\* track, it does to that record of the store.
Update(store, id, rec) == [store EXCEPT ![id] = rec]

\* zip(boxes, track_ids, names) stops at the shortest of its arguments.
ZipLen(batch) == Min(Len(batch), Len(names))

\* The k-th reading of the clock during a frame when the clock advances by one
\* second right before reading number tickAt (0: it does not advance).
Reading(c, k, tickAt) == Now(IF tickAt # 0 /\ k >= tickAt THEN c + 1 ELSE c)

\* The loop of track_next_frame from iteration k on.
RECURSIVE RunLoop(_, _, _, _, _, _, _)
RunLoop(store, batch, k, c, tickAt, maxPoints, framesCount) ==
  IF k > ZipLen(batch) THEN store
  ELSE LET ev == batch[k]
           s1 == GetOrCreate(store, ev.id)
           rec == ApplyEvent(s1[ev.id], ev, FrameShape,
                             Reading(c, 2 * k - 1, tickAt), Reading(c, 2 * k, tickAt),
                             maxPoints, framesCount)
       IN RunLoop(Update(s1, ev.id, rec), batch, k + 1, c, tickAt,
                  maxPoints, framesCount)

\* The events the loop iterates over, appended to the history of their identity.
RECURSIVE Observe(_, _, _)
Observe(obs, batch, k) ==
  IF k > ZipLen(batch) THEN obs
  ELSE Observe([obs EXCEPT ![batch[k].id] = Append(@, batch[k])], batch, k + 1)

\* Variant of GetObjects: the threshold itself counts as confirmed.
GetObjectsGeq(store, framesCount) ==
  {key \in DOMAIN store : LenTrack(store[key]) >= framesCount}

\* get_objects()
GetObjects(store, framesCount) ==
  {key \in DOMAIN store : LenTrack(store[key]) > framesCount}

\* The store after the subscripts tracked_objects[key] on the keys in S.
RECURSIVE Subscripted(_, _)
Subscripted(store, S) ==
  IF S = {} THEN store
  ELSE LET key == CHOOSE key \in S : TRUE
       IN Subscripted(GetOrCreate(store, key), S \ {key})

\* Variant of QueryAccess: the query subscripts the store on every identity.
QueryAccessAll(store, framesCount) == Subscripted(store, Ids)

\* The store after get_objects: the filter reads with .get(), the result is
\* built with a subscript on every key the filter kept.
QueryAccess(store, framesCount) == Subscripted(store, GetObjects(store, framesCount))

RECURSIVE SumLen(_, _)
SumLen(obs, S) ==
  IF S = {} THEN 0
  ELSE LET i == CHOOSE i \in S : TRUE IN Len(obs[i]) + SumLen(obs, S \ {i})
TotalEvents == SumLen(observed, Ids)

NoCrop == [shape |-> <<>>, bbox |-> <<>>, rect |-> <<>>, image |-> None]
NoReturn == [op |-> "init", results |-> <<>>, objects |-> {}]
\* No call of track_next_frame is in progress.
Idle == [pc |-> "idle", batch |-> <<>>, k |-> 0]

\* ------------------------------------------------------------------ Init
Init ==
  /\ tracked_objects = <<>>
  /\ \E cfg \in Configs : MAX_POINTS = cfg[1] /\ FRAMES_COUNT = cfg[2]
  /\ clock = 0
  /\ ret = NoReturn
  /\ observed = [i \in Ids |-> <<>>]
  /\ crop = NoCrop
  /\ frame = Idle

\* --------------------------------------------------------------- actions
\* Variant of TrackNextFrame: a frame without identities empties the store.
TrackNextFrameReset(batch, tickAt) ==
  /\ frame = Idle
  /\ tickAt = 0 \/ (clock < MaxClock /\ tickAt <= 2 * ZipLen(batch))
  /\ tracked_objects' =
       IF batch = <<>> THEN <<>>
       ELSE RunLoop(tracked_objects, batch, 1, clock, tickAt, MAX_POINTS, FRAMES_COUNT)
  /\ observed' = Observe(observed, batch, 1)
  /\ clock' = IF tickAt # 0 THEN clock + 1 ELSE clock
  /\ ret' = [op |-> "track_next_frame", results |-> batch, objects |-> {}]
  /\ UNCHANGED <<MAX_POINTS, FRAMES_COUNT, crop, frame>>

\* track_next_frame(frame) on a frame for which the detector returns batch (the
\* empty batch: boxes.id is None).
TrackNextFrame(batch, tickAt) ==
  /\ frame = Idle
  /\ tickAt = 0 \/ (clock < MaxClock /\ tickAt <= 2 * ZipLen(batch))
  /\ tracked_objects' =
       IF batch = <<>> THEN tracked_objects
       ELSE RunLoop(tracked_objects, batch, 1, clock, tickAt, MAX_POINTS, FRAMES_COUNT)
  /\ observed' = Observe(observed, batch, 1)
  /\ clock' = IF tickAt # 0 THEN clock + 1 ELSE clock
  /\ ret' = [op |-> "track_next_frame", results |-> batch, objects |-> {}]
  /\ UNCHANGED <<MAX_POINTS, FRAMES_COUNT, crop, frame>>

\* get_objects(), between two frames or after the video loop has ended.
GetObjectsCall ==
  /\ frame.pc \in {"idle", "stopped"}
  /\ ret' = [op |-> "get_objects", results |-> <<>>,
             objects |-> GetObjects(tracked_objects, FRAMES_COUNT)]
  /\ tracked_objects' = QueryAccess(tracked_objects, FRAMES_COUNT)
  /\ UNCHANGED <<MAX_POINTS, FRAMES_COUNT, clock, observed, crop, frame>>

\* Time passing between two frames.
Tick ==
  /\ clock < MaxClock
  /\ clock' = clock + 1
  /\ UNCHANGED <<tracked_objects, MAX_POINTS, FRAMES_COUNT, ret, observed, crop, frame>>

\* The run stops taking frames once limit events have been applied.
WithinRun(batch, limit) == TotalEvents + ZipLen(batch) <= limit

Next ==
  \/ \E batch \in Batches, tickAt \in 0..(2 * Len(names)) :
       WithinRun(batch, MaxEvents) /\ TrackNextFrame(batch, tickAt)
  \/ GetObjectsCall
  \/ Tick

Spec == Init /\ [][Next]_vars

\* ------------------------------------------------- long runs, one detection
\* The same program on longer videos whose detections are all of one kind, long
\* enough for the default FRAMES_COUNT to be passed by two identities.
NextLong ==
  \/ \E batch \in LongBatches, tickAt \in 0..(2 * Len(names)) :
       WithinRun(batch, MaxLongEvents) /\ TrackNextFrame(batch, tickAt)
  \/ GetObjectsCall
  \/ Tick

SpecLong == Init /\ [][NextLong]_vars

\* ------------------------------------------------------- crowded frames
\* The same program on frames that can hold more detections than the model has
\* names, and several detections with one identity.
NextZip ==
  \/ \E batch \in ZipBatches, tickAt \in 0..(2 * Len(names)) :
       WithinRun(batch, MaxEvents) /\ TrackNextFrame(batch, tickAt)
  \/ GetObjectsCall
  \/ Tick

SpecZip == Init /\ [][NextZip]_vars

\* ------------------------------------------- the loop body, line by line
\* track_next_frame taken one statement of its loop at a time, so that a
\* KeyboardInterrupt can arrive between two statements; __main__ catches it and
\* goes on to get_objects.
InLoop == frame.pc \in {"fetch", "detect", "capture", "vote", "point"}
\* The event and the identity of the iteration in progress.
CurrentEvent == frame.batch[frame.k]
CurrentId == CurrentEvent.id

\* Lines 77-94: the detector runs; without identities the call returns at once.
BeginFrame(batch) ==
  /\ frame = Idle
  /\ IF batch = <<>>
     THEN /\ ret' = [op |-> "track_next_frame", results |-> batch, objects |-> {}]
          /\ frame' = frame
     ELSE /\ frame' = [pc |-> "fetch", batch |-> batch, k |-> 1]
          /\ ret' = ret
  /\ UNCHANGED <<tracked_objects, MAX_POINTS, FRAMES_COUNT, clock, observed, crop>>

\* Line 98: track = self.tracked_objects[track_id]
FetchStep ==
  /\ frame.pc = "fetch"
  /\ tracked_objects' = GetOrCreate(tracked_objects, CurrentId)
  /\ observed' = [observed EXCEPT ![CurrentId] = Append(@, CurrentEvent)]
  /\ frame' = [frame EXCEPT !.pc = "detect"]
  /\ UNCHANGED <<MAX_POINTS, FRAMES_COUNT, clock, ret, crop>>

\* Line 99: track.detect(); the clock has advanced by `before` seconds when the
\* call starts and advances by `between` seconds between its two readings.
DetectStep(before, between) ==
  /\ frame.pc = "detect"
  /\ clock + before + between <= MaxClock
  /\ tracked_objects' = Update(tracked_objects, CurrentId,
                               Detect(tracked_objects[CurrentId], Now(clock + before),
                                      Now(clock + before + between)))
  /\ clock' = clock + before + between
  /\ frame' = [frame EXCEPT !.pc = "capture"]
  /\ UNCHANGED <<MAX_POINTS, FRAMES_COUNT, ret, observed, crop>>

\* Lines 100-101
CaptureStep ==
  /\ frame.pc = "capture"
  /\ tracked_objects' = Update(tracked_objects, CurrentId,
                               Capture(tracked_objects[CurrentId], CurrentEvent,
                                       FrameShape, FRAMES_COUNT))
  /\ frame' = [frame EXCEPT !.pc = "vote"]
  /\ UNCHANGED <<MAX_POINTS, FRAMES_COUNT, clock, ret, observed, crop>>

\* Line 102
VoteStep ==
  /\ frame.pc = "vote"
  /\ tracked_objects' = Update(tracked_objects, CurrentId,
                               Vote(tracked_objects[CurrentId], CurrentEvent))
  /\ frame' = [frame EXCEPT !.pc = "point"]
  /\ UNCHANGED <<MAX_POINTS, FRAMES_COUNT, clock, ret, observed, crop>>

\* Line 103, then the next iteration or the return of line 115.
PointStep ==
  /\ frame.pc = "point"
  /\ tracked_objects' = Update(tracked_objects, CurrentId,
                               Point(tracked_objects[CurrentId], CurrentEvent,
                                     FrameShape, MAX_POINTS))
  /\ IF frame.k < ZipLen(frame.batch)
     THEN /\ frame' = [frame EXCEPT !.pc = "fetch", !.k = @ + 1]
          /\ ret' = ret
     ELSE /\ frame' = Idle
          /\ ret' = [op |-> "track_next_frame", results |-> frame.batch, objects |-> {}]
  /\ UNCHANGED <<MAX_POINTS, FRAMES_COUNT, clock, observed, crop>>

\* Lines 162-165: a KeyboardInterrupt, wherever the program is, ends the video
\* loop.
Interrupt ==
  /\ frame.pc # "stopped"
  /\ frame' = [pc |-> "stopped", batch |-> <<>>, k |-> 0]
  /\ UNCHANGED <<tracked_objects, MAX_POINTS, FRAMES_COUNT, clock, ret, observed, crop>>

NextSteps ==
  \/ \E batch \in LongBatches : WithinRun(batch, MaxEvents) /\ BeginFrame(batch)
  \/ FetchStep
  \/ \E before, between \in 0..MaxClock : DetectStep(before, between)
  \/ CaptureStep
  \/ VoteStep
  \/ PointStep
  \/ Interrupt
  \/ GetObjectsCall

SpecSteps == Init /\ [][NextSteps]_vars

\* ------------------------------------------- the crop as a pure function
\* crop_image_with_bbox(image, bbox) called on its own, on the arguments the
\* initial state holds.
CropCall ==
  /\ crop.image = None
  /\ crop' = [crop EXCEPT !.rect = CropRect(crop.shape, crop.bbox),
                          !.image = Some(CropImageWithBbox(crop.shape, crop.bbox))]
  /\ UNCHANGED <<tracked_objects, MAX_POINTS, FRAMES_COUNT, clock, ret, observed, frame>>

InitCrop ==
  /\ tracked_objects = <<>>
  /\ MAX_POINTS = DEFAULT_MAX_POINTS
  /\ FRAMES_COUNT = DEFAULT_FRAMES_COUNT
  /\ clock = 0
  /\ ret = NoReturn
  /\ observed = [i \in Ids |-> <<>>]
  /\ \E shape \in CropShapes, bbox \in CropBoxes :
       crop = [shape |-> shape, bbox |-> bbox, rect |-> <<>>, image |-> None]
  /\ frame = Idle

NextCrop == CropCall

SpecCrop == InitCrop /\ [][NextCrop]_vars

\* ================================================================ claims
\* The record of identity i, and what the claims read from it.
Stored == DOMAIN tracked_objects
Rec(i) == tracked_objects[i]
\* Number of events the ingest loop has applied to identity i.
Applied(i) == Len(observed[i])
\* The labels of the events applied to identity i, in arrival order.
LabelsOf(i) == [k \in 1..Applied(i) |-> names[observed[i][k].cls + 1]]

\* C1: the trajectory of every record never holds more than MAX_POINTS points.
TrajectoryWithinCapacity ==
  \A i \in Stored : Len(Rec(i).tracked_points) <= MAX_POINTS

\* C2: every record whose observation count exceeds FRAMES_COUNT (every record
\* get_objects returns) holds a snapshot.
ConfirmedHasSnapshot ==
  \A i \in Stored : LenTrack(Rec(i)) > FRAMES_COUNT => Rec(i).cropped_frame # None

\* C3: once a record holds a snapshot, no step removes the record, clears the
\* snapshot or replaces it by another image.
SnapshotSetOnce ==
  [][\A i \in Stored :
       Rec(i).cropped_frame # None
         => /\ i \in DOMAIN tracked_objects'
            /\ tracked_objects'[i].cropped_frame = Rec(i).cropped_frame]_vars

\* C3 witness: a record holds a snapshot and its latest event, applied after
\* the capture, carried a box whose crop differs from the stored one.
SnapshotKeptWitness ==
  \E i \in Stored :
    /\ Rec(i).cropped_frame # None
    /\ Applied(i) >= FRAMES_COUNT + 3
    /\ Rec(i).cropped_frame
         # Some(CropImageWithBbox(FrameShape, observed[i][Applied(i)].xywhn))

\* C4: what get_objects returned is exactly the set of identities with more
\* than FRAMES_COUNT applied events.
QueryReturnsConfirmed ==
  ret.op = "get_objects"
    => ret.objects = {i \in Ids : Applied(i) > FRAMES_COUNT}

\* C4 witness: with the default threshold 10, get_objects left out an identity
\* with exactly 10 events and returned one with 11.
QueryBoundaryWitness ==
  /\ ret.op = "get_objects"
  /\ FRAMES_COUNT = DEFAULT_FRAMES_COUNT
  /\ \E i, j \in Ids :
       /\ Applied(i) = FRAMES_COUNT /\ i \notin ret.objects
       /\ Applied(j) = FRAMES_COUNT + 1 /\ j \in ret.objects

\* Votes of label l among the labels ls, and where l first occurs in ls.
VotesFor(ls, l) == Cardinality({k \in 1..Len(ls) : ls[k] = l})
FirstAt(ls, l) == CHOOSE k \in 1..Len(ls) : ls[k] = l /\ \A j \in 1..(k - 1) : ls[j] # l

\* C5: for every record with a vote, type is a label with the most votes, and
\* among the labels with the most votes the one observed first.
TypeIsFirstMajority ==
  \A i \in Stored :
    Applied(i) > 0 =>
      LET ls == LabelsOf(i)
          seen == {ls[k] : k \in 1..Len(ls)}
          t == Type(Rec(i))
      IN /\ t \in seen
         /\ \A l \in seen : VotesFor(ls, l) <= VotesFor(ls, t)
         /\ \A l \in seen : VotesFor(ls, l) = VotesFor(ls, t) => FirstAt(ls, t) <= FirstAt(ls, l)

\* C5 witness: two labels tie and type is the one seen first, here the one that
\* is neither first in names nor last observed.
TypeTieWitness ==
  \E i \in Stored :
    /\ LabelsOf(i) = <<"truck", "car">>
    /\ Type(Rec(i)) = "truck"

\* The text of a timestamp compared as Python compares str: field by field in
\* the order written (day first), all fields having a fixed width.
RECURSIVE LexLeq(_, _, _)
LexLeq(a, b, k) ==
  IF k > Len(a) THEN TRUE
  ELSE IF a[k] < b[k] THEN TRUE
  ELSE IF a[k] > b[k] THEN FALSE
  ELSE LexLeq(a, b, k + 1)
StrLeq(a, b) == LexLeq(a, b, 1)

\* The instant a timestamp text denotes, in seconds since 01.01.1970.
DaysFromCivil(d, m, y0) ==
  LET y == IF m <= 2 THEN y0 - 1 ELSE y0
      era == y \div 400
      yoe == y - era * 400
      doy == (153 * (IF m > 2 THEN m - 3 ELSE m + 9) + 2) \div 5 + d - 1
      doe == yoe * 365 + yoe \div 4 - yoe \div 100 + doy
  IN era * 146097 + doe - 719468
Strptime(ts) ==
  DaysFromCivil(ts[1], ts[2], ts[3]) * 86400 + ts[4] * 3600 + ts[5] * 60 + ts[6]

\* A step that is a call of track_next_frame, whose batch is ret'.results.
IngestStep ==
  /\ ret'.op = "track_next_frame"
  /\ ~(UNCHANGED <<tracked_objects, ret, observed>>)
\* How many of the events the loop reaches in batch carry identity i.
OccIn(batch, i) ==
  Cardinality({k \in 1..Min(Len(batch), Len(names)) : batch[k].id = i})
\* len(track) and the sum of the votes of identity i in a store, 0 when absent.
CountIn(store, i) == IF i \in DOMAIN store THEN LenTrack(store[i]) ELSE 0
VotesIn(store, i) == IF i \in DOMAIN store THEN SumVotes(store[i].predicted_types) ELSE 0
\* The votes of label l in a ledger.
RECURSIVE VoteOf(_, _)
VoteOf(pt, l) ==
  IF pt = <<>> THEN 0
  ELSE (IF Head(pt).label = l THEN Head(pt).count ELSE 0) + VoteOf(Tail(pt), l)

ObservationCountStep ==
  [][IngestStep =>
       \A i \in Ids :
         /\ CountIn(tracked_objects', i) = CountIn(tracked_objects, i) + OccIn(ret'.results, i)
         /\ CountIn(tracked_objects', i) = VotesIn(tracked_objects', i)]_vars

\* C7 witness: the last call applied an event to a record that now counts three
\* observations over two labels.
ObservationCountWitness ==
  /\ ret.op = "track_next_frame"
  /\ \E i \in Stored :
       /\ OccIn(ret.results, i) = 1
       /\ LenTrack(Rec(i)) = 3
       /\ Len(Rec(i).predicted_types) = 2

\* C8: no step removes a record, lowers its observation count or any of its
\* votes, changes a first_detection that is set, or takes an identity out of the
\* confirmed set; an event for a confirmed identity is counted on its record.
RecordsAccumulate ==
  [][\A i \in Stored :
       /\ i \in DOMAIN tracked_objects'
       /\ CountIn(tracked_objects', i) >= CountIn(tracked_objects, i)
       /\ \A k \in 1..Len(names) :
            VoteOf(tracked_objects'[i].predicted_types, names[k])
              >= VoteOf(Rec(i).predicted_types, names[k])
       /\ Rec(i).first_detection # None
            => tracked_objects'[i].first_detection = Rec(i).first_detection
       /\ CountIn(tracked_objects, i) > FRAMES_COUNT
            => /\ CountIn(tracked_objects', i) > FRAMES_COUNT
               /\ IngestStep =>
                    CountIn(tracked_objects', i)
                      = CountIn(tracked_objects, i) + OccIn(ret'.results, i)]_vars

\* C8 witness: the last call applied an event to an identity that was already
\* confirmed before the call, and the record counts all its events.
ReuseAfterConfirmWitness ==
  /\ ret.op = "track_next_frame"
  /\ \E i \in Stored :
       /\ OccIn(ret.results, i) = 1
       /\ Applied(i) - 1 > FRAMES_COUNT
       /\ LenTrack(Rec(i)) = Applied(i)
       /\ Rec(i).cropped_frame # None

\* An event is well formed when its box lies in [0, 1] and its label is not empty.
WellFormed(ev) ==
  /\ \A k \in 1..4 : 0 <= ev.xywhn[k] /\ ev.xywhn[k] <= 100
  /\ names[ev.cls + 1] # ""
WellFormedCount(i) ==
  Cardinality({k \in 1..Applied(i) : WellFormed(observed[i][k])})

\* C9: a malformed event of a batch leaves no trace: a record exists only for an
\* identity with a well-formed event, and counts only its well-formed events.
MalformedEventSkipped ==
  \A i \in Stored :
    /\ WellFormedCount(i) > 0
    /\ LenTrack(Rec(i)) = WellFormedCount(i)

\* C10: for a box with components in [0, 1], the rectangle crop_image_with_bbox
\* computes has a non-negative origin and lies within the frame.
CropRectWithinFrame ==
  crop.rect # <<>> =>
    /\ crop.rect[1] >= 0
    /\ crop.rect[2] >= 0
    /\ crop.rect[1] + crop.rect[3] <= crop.shape[2]
    /\ crop.rect[2] + crop.rect[4] <= crop.shape[1]

\* An image holds at least one pixel.
HasArea(img) == img.rows[1] < img.rows[2] /\ img.cols[1] < img.cols[2]

\* C11: no record ever holds a snapshot of zero area (a capture that yields one
\* leaves the snapshot None, to be taken again on a later event).
NoEmptySnapshot ==
  \A i \in Stored :
    Rec(i).cropped_frame # None => HasArea(Rec(i).cropped_frame[1])

\* C12: a step that leaves get_objects as the most recent call (a call of
\* get_objects, repeated or not) leaves the store as it was.
QueryReadOnly ==
  [][ret'.op = "get_objects" => tracked_objects' = tracked_objects]_vars

\* C12 witness: get_objects was called on a store that holds a record it
\* returned and a record it did not.
QueryReadOnlyWitness ==
  /\ ret.op = "get_objects"
  /\ \E i \in ret.objects : \E j \in Stored : j \notin ret.objects
  /\ ret.objects \subseteq Stored

\* The box (0.5, 0.5, 1.0, 1.0).
BoxFull == <<50, 50, 100, 100>>

\* C14: on every frame the box (0.5, 0.5, 1.0, 1.0) gives the rectangle
\* (0, 0)-(W, H) and the crop is the whole frame.
FullFrameCrop ==
  (crop.bbox = BoxFull /\ crop.image # None) =>
    /\ crop.rect = <<0, 0, crop.shape[2], crop.shape[1]>>
    /\ crop.image[1] = [rows |-> <<0, crop.shape[1]>>, cols |-> <<0, crop.shape[2]>>]

\* C14 witness: the full box was cropped out of a 100x100 frame.
FullFrameCropWitness ==
  /\ crop.bbox = BoxFull
  /\ crop.shape = <<100, 100>>
  /\ crop.rect = <<0, 0, 100, 100>>

\* The last n elements of a sequence.
LastN(seq, n) == SubSeq(seq, Len(seq) - n + 1, Len(seq))
\* The centres of the events applied to identity i, in arrival order.
CentresOf(i) == [k \in 1..Applied(i) |-> Centre(observed[i][k], FrameShape)]

\* C17: the trajectory of a record is the last min(n, MAX_POINTS) centres of
\* the n events applied to its identity, in arrival order.
TrajectoryIsWindow ==
  \A i \in Stored :
    Rec(i).tracked_points = LastN(CentresOf(i), Min(Applied(i), MAX_POINTS))

\* C19: a record that holds a snapshot has more than FRAMES_COUNT observations.
SnapshotOnlyWhenConfirmed ==
  \A i \in Stored :
    Rec(i).cropped_frame # None
      => Applied(i) > FRAMES_COUNT /\ LenTrack(Rec(i)) > FRAMES_COUNT

\* C19 witness: a record holds a snapshot, taken on the earliest event the
\* test of line 100 lets through.
SnapshotWitness ==
  \E i \in Stored :
    Rec(i).cropped_frame # None /\ Applied(i) = FRAMES_COUNT + 2

\* C20: a call of track_next_frame on a frame without identities leaves the
\* store as it was.
EmptyFrameNoChange ==
  [][(ret'.op = "track_next_frame" /\ ret'.results = <<>>)
       => tracked_objects' = tracked_objects]_vars

\* C20 witness: a frame without identities was processed while the store held
\* a record.
EmptyFrameWitness ==
  /\ ret.op = "track_next_frame"
  /\ ret.results = <<>>
  /\ Stored # {}

\* How many events of batch carry identity i.
FullOccIn(batch, i) == Cardinality({k \in 1..Len(batch) : batch[k].id = i})

\* C16: a call of track_next_frame raises the observation count of every
\* identity by the number of events the batch holds for it.
AllEventsApplied ==
  [][IngestStep =>
       \A i \in Ids :
         CountIn(tracked_objects', i)
           = CountIn(tracked_objects, i) + FullOccIn(ret'.results, i)]_vars

\* A step of the loop that is line 98, the fetch of the record.
FetchTaken == frame.pc = "fetch" /\ frame'.pc = "detect"

\* C13: fetching the record of an identity the store does not hold inserts a
\* record with empty trajectory, empty vote ledger, observation count 0, no
\* timestamps and no snapshot, and touches no other record; fetching the record
\* of an identity the store holds leaves the store as it was.
FetchInsertsEmptyRecord ==
  [][FetchTaken =>
       IF CurrentId \in Stored
       THEN tracked_objects' = tracked_objects
       ELSE /\ DOMAIN tracked_objects' = Stored \cup {CurrentId}
            /\ \A j \in Stored : tracked_objects'[j] = Rec(j)
            /\ tracked_objects'[CurrentId].tracked_points = <<>>
            /\ tracked_objects'[CurrentId].predicted_types = <<>>
            /\ LenTrack(tracked_objects'[CurrentId]) = 0
            /\ tracked_objects'[CurrentId].first_detection = None
            /\ tracked_objects'[CurrentId].last_detection = None
            /\ tracked_objects'[CurrentId].cropped_frame = None]_vars

\* C13 witness: the record of a new identity has just been fetched while the
\* store already held the record of another identity with observations.
FetchWitness ==
  /\ frame.pc = "detect"
  /\ Applied(CurrentId) = 1
  /\ \E j \in Stored \ {CurrentId} : LenTrack(Rec(j)) >= 1

\* C15: once the run was interrupted, no record has timestamps without a vote
\* or a vote without a trajectory point.
NoPartialRecord ==
  frame.pc = "stopped" =>
    \A i \in Stored :
      /\ (Rec(i).first_detection # None => Rec(i).predicted_types # <<>>)
      /\ (Rec(i).predicted_types # <<>> => Rec(i).tracked_points # <<>>)

\* C18: a statement of the loop body working on the event of one identity
\* neither changes nor creates the record of any other identity.
OnlyOwnRecordChanges ==
  [][InLoop =>
       \A j \in Ids \ {CurrentId} :
         IF j \in Stored
         THEN j \in DOMAIN tracked_objects' /\ tracked_objects'[j] = Rec(j)
         ELSE j \notin DOMAIN tracked_objects']_vars

\* C18 witness: a frame with one event has been applied in full to the record
\* of its identity while the store held the record of another identity with
\* observations.
OwnRecordWitness ==
  /\ frame = Idle
  /\ ret.op = "track_next_frame"
  /\ Len(ret.results) = 1
  /\ LenTrack(Rec(ret.results[1].id)) >= 1
  /\ \E j \in Stored \ {ret.results[1].id} : LenTrack(Rec(j)) >= 1

====
